---- MODULE Spec2Model ----
(***************************************************************************)
(* State-machine model of the Rigel Telegram bot: the per-user session     *)
(* state machine (session_manager.py), the credential and conversation     *)
(* store (database.py), the completion gateway (ai_service.py) and the     *)
(* update handlers and their dispatch (main.py).                           *)
(***************************************************************************)
EXTENDS Naturals, Sequences, FiniteSets, TLC

(* ------------------------------ bounds -------------------------------- *)

\* number of distinct platform user ids
NumUsers == 2
\* number of updates that arrive in one run
MaxUpdates == 4
\* number of updates that may wait undispatched in the update queue
MaxPending == 1
\* largest reading of the wall clock (datetime.utcnow), readings are 0..MaxClock
MaxClock == 1

(* ------------------------------ values -------------------------------- *)

Users == 1..NumUsers

\* A text is a sequence of characters; " " is whitespace.
Texts == { <<"a">>, <<" ", "b">> }

\* How one request to the completion API can end: a response whose first
\* choice holds text, a response without choices, an APIError, or any other
\* exception (a timeout, a transport failure); text is the generated text or
\* str(e).
Completions ==
    { [kind |-> "choice", text |-> <<"hi">>],
      [kind |-> "no_choices", text |-> <<>>],
      [kind |-> "APIError", text |-> <<"401">>],
      [kind |-> "Exception", text |-> <<"timed out">>] }

\* No request is made.
NoCompletion == [kind |-> "no_client", text |-> <<>>]

\* The error string chat_completion returns when no client is bound.
NoClientError == <<"API key not set, use /setapi">>

\* The error string chat_completion returns for a response without choices.
NoChoicesError == <<"AI generated no response">>

\* f"OpenAI API error: {str(e)}"
APIErrorText(e) == <<"OpenAI API error: ">> \o e

\* f"request error: {str(e)}"
RequestErrorText(e) == <<"request error: ">> \o e

\* config.SUPPORTED_LANGUAGES (two of them) and config.DEFAULT_LANGUAGE; a
\* language code is a text.
SUPPORTED_LANGUAGES == { <<"zh">>, <<"en">> }
DEFAULT_LANGUAGE == <<"zh">>

\* The keys of config.DEFAULT_AI_PARAMS.
ParamNames == { <<"model">>, <<"temperature">>, <<"max_tokens">>, <<"top_p">>,
                <<"frequency_penalty">>, <<"presence_penalty">> }

\* A parameter value as json stores it: a str, a float or an int, written out.
Str(s) == [type |-> "str", repr |-> s]
Float(s) == [type |-> "float", repr |-> s]
Int(s) == [type |-> "int", repr |-> s]

\* config.DEFAULT_AI_PARAMS
DEFAULT_AI_PARAMS ==
    [n \in ParamNames |->
        CASE n = <<"model">> -> Str(<<"gpt-3.5-turbo">>)
          [] n = <<"temperature">> -> Float(<<"0", ".", "7">>)
          [] n = <<"max_tokens">> -> Int(<<"1", "0", "0", "0">>)
          [] n = <<"top_p">> -> Float(<<"1", ".", "0">>)
          [] OTHER -> Float(<<"0", ".", "0">>)]

\* Python's None for an api_key (a str otherwise).
NoKey == <<>>

\* Python's None for a conversation id (ids are positive autoincrement keys).
NoConversation == 0

UserStates == {"IDLE", "WAITING_API_KEY", "WAITING_PARAM_VALUE",
               "SELECTING_LANGUAGE", "CHATTING"}

\* The kinds of update the handlers are registered for (help_command only
\* replies and is left out).
UpdateKinds == {"start", "setapi", "reset", "params", "setlang", "callback", "text"}

\* get_message(lang, key): a localized template named by its key.
Msg(key) == [key |-> key, text |-> <<>>]
\* A reply whose text is given literally (the gateway's response).
Raw(text) == [key |-> "raw", text |-> text]

VARIABLES
    db_users,       \* table users: per telegram id, whether the row exists and its api_key
    conversations,  \* table conversations, by id: owner and message rows in insertion order
    clock,          \* last reading of the wall clock
    sessions,       \* SessionManager.sessions
    ai_services,    \* SessionManager.ai_services
    update_queue,   \* Application.update_queue: the updates waiting, in arrival order
    received,       \* how many updates have arrived so far
    running,        \* the frames of the handler calls that have not returned
    finished        \* per user, the frame of the handler call that returned last

vars == <<db_users, conversations, clock, sessions, ai_services,
          update_queue, received, running, finished>>

(* --------------------------- pure helpers ----------------------------- *)

RECURSIVE lstrip(_)
lstrip(s) == IF s # <<>> /\ Head(s) = " " THEN lstrip(Tail(s)) ELSE s

RECURSIVE rstrip(_)
rstrip(s) == IF s # <<>> /\ s[Len(s)] = " " THEN rstrip(SubSeq(s, 1, Len(s) - 1)) ELSE s

\* str.strip()
strip(s) == rstrip(lstrip(s))

\* The characters of a value are decimal digits, "." and "x"; "x" stands for
\* any character no number is written with.
Digits == {"0", "1", "2", "3", "4", "5", "6", "7", "8", "9"}

\* Whether every character of s is a decimal digit.
RECURSIVE AllDigits(_)
AllDigits(s) == s = <<>> \/ (Head(s) \in Digits /\ AllDigits(Tail(s)))

\* The position of the first "." of s, 0 when there is none.
RECURSIVE PointAt(_, _)
PointAt(s, i) ==
    IF i > Len(s) THEN 0 ELSE IF s[i] = "." THEN i ELSE PointAt(s, i + 1)

\* Without its leading zeros, "0" when nothing is left.
RECURSIVE NoLeadingZeros(_)
NoLeadingZeros(s) ==
    IF s = <<>> THEN <<"0">>
    ELSE IF Head(s) = "0" THEN NoLeadingZeros(Tail(s)) ELSE s

\* Without its trailing zeros, "0" when nothing is left.
RECURSIVE NoTrailingZeros(_)
NoTrailingZeros(s) ==
    IF s = <<>> THEN <<"0">>
    ELSE IF s[Len(s)] = "0" THEN NoTrailingZeros(SubSeq(s, 1, Len(s) - 1)) ELSE s

\* int(value): the ValueError of a text that is not a run of digits, else the
\* integer, written as json writes it.
int(value) ==
    IF value # <<>> /\ AllDigits(value)
    THEN [ok |-> TRUE, repr |-> NoLeadingZeros(value)]
    ELSE [ok |-> FALSE, repr |-> <<>>]

\* float(value): digits with at most one "." and at least one digit, else the
\* ValueError; the float is written as json writes it ("5" becomes "5.0").
float(value) ==
    LET point == PointAt(value, 1)
        whole == IF point = 0 THEN value ELSE SubSeq(value, 1, point - 1)
        fraction == IF point = 0 THEN <<>> ELSE SubSeq(value, point + 1, Len(value))
    IN  IF AllDigits(whole) /\ AllDigits(fraction) /\ whole \o fraction # <<>>
        THEN [ok |-> TRUE,
              repr |-> NoLeadingZeros(whole) \o <<".">> \o NoTrailingZeros(fraction)]
        ELSE [ok |-> FALSE, repr |-> <<>>]

(* ------------------------- database.py (store) ------------------------ *)

\* A telegram id with no row in table users.
NoUser == [exists |-> FALSE, api_key |-> NoKey,
           language_code |-> DEFAULT_LANGUAGE, ai_params |-> DEFAULT_AI_PARAMS]

\* DatabaseManager.get_or_create_user: insert the row when absent (api_key
\* NULL, the default parameters in its UserSettings).  The platform profile
\* carries no language code, so the row gets DEFAULT_LANGUAGE.
get_or_create_user(users, u) ==
    IF users[u].exists THEN users
    ELSE [users EXCEPT ![u] = [exists |-> TRUE, api_key |-> NoKey,
                               language_code |-> DEFAULT_LANGUAGE,
                               ai_params |-> DEFAULT_AI_PARAMS]]

\* DatabaseManager.set_api_key: False, and no write, when the user is unknown.
set_api_key(users, u, api_key) ==
    IF users[u].exists
    THEN [db_users |-> [users EXCEPT ![u].api_key = api_key], ok |-> TRUE]
    ELSE [db_users |-> users, ok |-> FALSE]

\* DatabaseManager.get_api_key: None when the user is unknown or has no key.
get_api_key(users, u) == IF users[u].exists THEN users[u].api_key ELSE NoKey

\* Mutant of set_param: any name is taken and any value stored as it came.
set_param_unchecked(params, param, value) ==
    [ai_params |-> (param :> Str(value)) @@ params, ok |-> TRUE]

\* UserSettings.set_param: an unknown name or a value the parameter's type
\* cannot be made from returns False and leaves the parameters alone.
set_param(params, param, value) ==
    IF param \notin DOMAIN params THEN [ai_params |-> params, ok |-> FALSE]
    ELSE IF param = <<"model">>
         THEN [ai_params |-> [params EXCEPT ![param] = Str(value)], ok |-> TRUE]
    ELSE IF param \in { <<"temperature">>, <<"top_p">>, <<"frequency_penalty">>,
                        <<"presence_penalty">> }
         THEN IF float(value).ok
              THEN [ai_params |-> [params EXCEPT ![param] = Float(float(value).repr)],
                    ok |-> TRUE]
              ELSE [ai_params |-> params, ok |-> FALSE]
    ELSE IF param = <<"max_tokens">>
         THEN IF int(value).ok
              THEN [ai_params |-> [params EXCEPT ![param] = Int(int(value).repr)],
                    ok |-> TRUE]
              ELSE [ai_params |-> params, ok |-> FALSE]
    ELSE [ai_params |-> params, ok |-> FALSE]

\* DatabaseManager.set_user_param: False when the user or its settings are not
\* in the store, else what set_param answers.
set_user_param(users, u, param, value) ==
    IF ~users[u].exists THEN [db_users |-> users, ok |-> FALSE]
    ELSE LET r == set_param(users[u].ai_params, param, value)
         IN  [db_users |-> [users EXCEPT ![u].ai_params = r.ai_params], ok |-> r.ok]

\* DatabaseManager.set_language: False when the user is not in the store.
set_language(users, u, language_code) ==
    IF users[u].exists
    THEN [db_users |-> [users EXCEPT ![u].language_code = language_code], ok |-> TRUE]
    ELSE [db_users |-> users, ok |-> FALSE]

\* DatabaseManager.get_language
get_language(users, u) ==
    IF users[u].exists THEN users[u].language_code ELSE DEFAULT_LANGUAGE

\* Mutant of DatabaseManager.create_conversation: a row for any user.
create_conversation_for_anyone(users, convs, u) ==
    [conversations |-> Append(convs, [user_id |-> u, messages |-> <<>>]),
     conversation_id |-> Len(convs) + 1]

\* DatabaseManager.create_conversation: the new row's id, None for an unknown user.
DatabaseManager_create_conversation(users, convs, u) ==
    IF users[u].exists
    THEN [conversations |-> Append(convs, [user_id |-> u, messages |-> <<>>]),
          conversation_id |-> Len(convs) + 1]
    ELSE [conversations |-> convs, conversation_id |-> NoConversation]

\* Mutant of add_message: the row goes to the first conversation.
add_message_to_first(convs, conversation_id, role, content, now) ==
    IF convs # <<>>
    THEN [conversations |->
              [convs EXCEPT ![1].messages =
                  Append(@, [role |-> role, content |-> content, timestamp |-> now])],
          ok |-> TRUE]
    ELSE [conversations |-> convs, ok |-> FALSE]

\* Mutant of add_message: every row is stored with the role user.
add_message_as_user(convs, conversation_id, role, content, now) ==
    IF conversation_id \in 1..Len(convs)
    THEN [conversations |->
              [convs EXCEPT ![conversation_id].messages =
                  Append(@, [role |-> "user", content |-> content, timestamp |-> now])],
          ok |-> TRUE]
    ELSE [conversations |-> convs, ok |-> FALSE]

\* DatabaseManager.add_message: the row gets timestamp = utcnow() at insertion.
add_message(convs, conversation_id, role, content, now) ==
    IF conversation_id \in 1..Len(convs)
    THEN [conversations |->
              [convs EXCEPT ![conversation_id].messages =
                  Append(@, [role |-> role, content |-> content, timestamp |-> now])],
          ok |-> TRUE]
    ELSE [conversations |-> convs, ok |-> FALSE]

\* Conversation.messages: relationship(..., order_by="Message.timestamp").  The
\* rows come back ordered by timestamp alone; the order of rows with equal
\* timestamps is not fixed by the query.  Each result is given as the sequence
\* of the rows' insertion positions.
RECURSIVE OrderByTimestamp(_, _)
OrderByTimestamp(rows, left) ==
    IF left = {} THEN { <<>> }
    ELSE UNION { { <<i>> \o rest : rest \in OrderByTimestamp(rows, left \ {i}) } :
                 i \in { j \in left :
                           \A k \in left : rows[j].timestamp <= rows[k].timestamp } }

Conversation_messages(rows) ==
    UNION { OrderByTimestamp(r, 1..Len(r)) : r \in {rows} }

\* Conversation.get_messages_for_api: role and content of each message, in the
\* order the relationship delivers them.
get_messages_for_api(rows, order) ==
    [i \in 1..Len(order) |-> [role |-> rows[order[i]].role,
                              content |-> rows[order[i]].content]]

\* DatabaseManager.get_conversation_messages: the results the call can return.
get_conversation_messages(convs, conversation_id) ==
    IF conversation_id \in 1..Len(convs)
    THEN Conversation_messages(convs[conversation_id].messages)
    ELSE { <<>> }

(* --------------------- ai_service.py (gateway) ------------------------ *)

\* AIService.__init__ / setup_client: the client is built only for a truthy key.
AIService(api_key) == [cached |-> TRUE, api_key |-> api_key, client |-> api_key]

\* No entry in SessionManager.ai_services.
NoService == [cached |-> FALSE, api_key |-> NoKey, client |-> NoKey]

\* Mutant of chat_completion: the first choice's text, whatever happened.
chat_completion_unguarded(service, completion) == completion.text

\* AIService.chat_completion: the fixed error string when no client is bound,
\* the text of the first choice, or the error string built for a response
\* without choices, an APIError or any other exception.
chat_completion(service, completion) ==
    IF service.client = NoKey THEN NoClientError
    ELSE CASE completion.kind = "choice" -> completion.text
           [] completion.kind = "no_choices" -> NoChoicesError
           [] completion.kind = "APIError" -> APIErrorText(completion.text)
           [] OTHER -> RequestErrorText(completion.text)

(* ------------------ session_manager.py (sessions) --------------------- *)

\* UserSession.temp_data is a dict, here the set of its <<key, value>> items.
\* UserSession.__init__
UserSession == [exists |-> TRUE, state |-> "IDLE",
                conversation_id |-> NoConversation, temp_data |-> {}]

\* No entry in SessionManager.sessions.
NoSession == [exists |-> FALSE, state |-> "IDLE",
              conversation_id |-> NoConversation, temp_data |-> {}]

\* Mutant of get_user_session: a new session starts in CHATTING.
get_user_session_chatting(ss, u) ==
    IF ss[u].exists THEN ss
    ELSE [ss EXCEPT ![u] = [UserSession EXCEPT !.state = "CHATTING"]]

\* SessionManager.get_user_session: create the session when absent.
get_user_session(ss, u) == IF ss[u].exists THEN ss ELSE [ss EXCEPT ![u] = UserSession]

\* Mutant of set_state: every session gets the state.
set_state_of_all(ss, u, state) == [v \in DOMAIN ss |-> [ss[v] EXCEPT !.state = state]]

\* UserSession.set_state
set_state(ss, u, state) == [ss EXCEPT ![u].state = state]

\* UserSession.set_conversation_id
set_conversation_id(ss, u, conversation_id) ==
    [ss EXCEPT ![u].conversation_id = conversation_id]

\* SessionManager.get_ai_service: build the service from the stored key when absent.
get_ai_service(services, users, u) ==
    IF services[u].cached THEN services
    ELSE [services EXCEPT ![u] = AIService(get_api_key(users, u))]

\* Mutant of update_ai_service: a cached service keeps its client.
update_ai_service_keeping_client(services, u, api_key) ==
    IF services[u].cached THEN services
    ELSE [services EXCEPT ![u] = AIService(api_key)]

\* SessionManager.update_ai_service: re-bind the cached client, or cache a new one.
update_ai_service(services, u, api_key) ==
    IF services[u].cached
    THEN [services EXCEPT ![u].api_key = api_key, ![u].client = api_key]
    ELSE [services EXCEPT ![u] = AIService(api_key)]

\* Mutant of SessionManager_create_conversation: the new id is returned but
\* not bound to the session.
SessionManager_create_conversation_unbound(users, convs, ss, u) ==
    LET r == DatabaseManager_create_conversation(users, convs, u) IN
    [conversations |-> r.conversations,
     conversation_id |-> r.conversation_id,
     sessions |-> ss]

\* SessionManager.create_conversation: bind the new id to the session when the
\* store returned one.
SessionManager_create_conversation(users, convs, ss, u) ==
    LET r == DatabaseManager_create_conversation(users, convs, u) IN
    [conversations |-> r.conversations,
     conversation_id |-> r.conversation_id,
     sessions |-> IF r.conversation_id # NoConversation
                  THEN set_conversation_id(get_user_session(ss, u), u, r.conversation_id)
                  ELSE ss]

\* UserSession.set_temp_data
set_temp_data(ss, u, key, value) ==
    [ss EXCEPT ![u].temp_data = { p \in @ : p[1] # key } \cup { <<key, value>> }]

\* UserSession.get_temp_data: None (here the empty text) for an absent key.
get_temp_data(ss, u, key) ==
    IF \E p \in ss[u].temp_data : p[1] = key
    THEN (CHOOSE p \in ss[u].temp_data : p[1] = key)[2]
    ELSE <<>>

\* UserSession.clear_temp_data
clear_temp_data(ss, u) == [ss EXCEPT ![u].temp_data = {}]

(* ------------------------ main.py (handlers) -------------------------- *)

\* Mutant of concurrent_updates: the application is built with
\* concurrent_updates(True).
concurrent_updates_enabled == TRUE

\* Application.builder().token(TELEGRAM_TOKEN).build(): concurrent_updates is
\* left at its default, so the application awaits each update's handler before
\* it takes the next update from the queue.
concurrent_updates == FALSE

\* The frame of one handler call: the update it serves, where it is suspended,
\* its local variables and the bot messages the user sees for it.  text is
\* the message text or the callback data, args the command's arguments; state and
\* found_conversation_id are the session state and conversation handle the
\* handler found, user_row the insertion position of the user message it
\* appended (0: none), message_order the insertion positions of the rows
\* behind messages.
FrameOf(update, pc, state, found_conversation_id) ==
    [user |-> update.user, kind |-> update.kind,
     text |-> update.text, args |-> update.args, pc |-> pc, state |-> state,
     found_conversation_id |-> found_conversation_id,
     api_key |-> NoKey, is_valid |-> "none",
     conversation_id |-> NoConversation, user_row |-> 0,
     messages |-> <<>>, message_order |-> <<>>,
     service |-> NoService, completion |-> "none", response |-> <<>>,
     success |-> "none", replies |-> <<>>]

Frame(update, pc, state) ==
    FrameOf(update, pc, state, sessions[update.user].conversation_id)

\* No handler call of the user has returned yet.
NoFrame == FrameOf([user |-> 0, kind |-> "none", text |-> <<>>, args |-> <<>>],
                   "done", "IDLE", NoConversation)

\* Mutant of start_command: the stored key is not looked at, a conversation is
\* always started.
start_command_without_key_check(users, convs, ss, u) ==
    LET users1 == get_or_create_user(users, u)
        r == SessionManager_create_conversation(users1, convs, ss, u)
    IN  [db_users |-> users1, conversations |-> r.conversations,
         sessions |-> set_state(get_user_session(r.sessions, u), u, "CHATTING"),
         conversation_id |-> r.conversation_id,
         replies |-> << Msg("welcome"), Msg("chat_start") >>]

\* start_command: the state after the handler, and its replies.
start_command(users, convs, ss, u) ==
    LET users1 == get_or_create_user(users, u)
        api_key == get_api_key(users1, u)
    IN  IF api_key = NoKey
        THEN [db_users |-> users1, conversations |-> convs,
              sessions |-> set_state(get_user_session(ss, u), u, "WAITING_API_KEY"),
              conversation_id |-> NoConversation,
              replies |-> << Msg("welcome"), Msg("api_request") >>]
        ELSE LET r == SessionManager_create_conversation(users1, convs, ss, u) IN
             IF r.conversation_id # NoConversation
             THEN [db_users |-> users1, conversations |-> r.conversations,
                   sessions |-> set_state(get_user_session(r.sessions, u), u, "CHATTING"),
                   conversation_id |-> r.conversation_id,
                   replies |-> << Msg("welcome"), Msg("chat_start") >>]
             ELSE [db_users |-> users1, conversations |-> r.conversations,
                   sessions |-> r.sessions,
                   conversation_id |-> NoConversation,
                   replies |-> << Msg("welcome") >>]

\* Mutant of setapi_command: the session is replaced by a new one.
setapi_command_new_session(ss, u) ==
    [sessions |-> [ss EXCEPT ![u] = [UserSession EXCEPT !.state = "WAITING_API_KEY"]],
     replies |-> << Msg("api_request") >>]

\* setapi_command: prompt for the key and wait for it.
setapi_command(ss, u) ==
    [sessions |-> set_state(get_user_session(ss, u), u, "WAITING_API_KEY"),
     replies |-> << Msg("api_request") >>]

\* reset_command: a new conversation; the state changes only when one was created.
reset_command(users, convs, ss, u) ==
    LET r == SessionManager_create_conversation(users, convs, ss, u) IN
    IF r.conversation_id # NoConversation
    THEN [conversations |-> r.conversations,
          sessions |-> set_state(get_user_session(r.sessions, u), u, "CHATTING"),
          conversation_id |-> r.conversation_id,
          replies |-> << Msg("chat_reset") >>]
    ELSE [conversations |-> r.conversations, sessions |-> r.sessions,
          conversation_id |-> NoConversation, replies |-> <<>>]

\* Mutant of handle_api_key: the answer of validate_api_key is not looked at,
\* the key is always accepted.
handle_api_key_unchecked(users, convs, ss, services, u, api_key, is_valid) ==
    LET saved == set_api_key(users, u, api_key)
        r == SessionManager_create_conversation(saved.db_users, convs, ss, u)
    IN  [db_users |-> saved.db_users,
         ai_services |-> update_ai_service(services, u, api_key),
         conversations |-> r.conversations,
         sessions |-> set_state(r.sessions, u, "CHATTING"),
         conversation_id |-> r.conversation_id,
         reply |-> Msg("api_set_success")]

\* handle_message, state WAITING_API_KEY, after validate_api_key returned
\* is_valid (main.py 235-248).
handle_api_key(users, convs, ss, services, u, api_key, is_valid) ==
    IF is_valid
    THEN LET saved == set_api_key(users, u, api_key)
             r == SessionManager_create_conversation(saved.db_users, convs, ss, u)
         IN [db_users |-> saved.db_users,
             ai_services |-> update_ai_service(services, u, api_key),
             conversations |-> r.conversations,
             sessions |-> set_state(r.sessions, u, "CHATTING"),
             conversation_id |-> r.conversation_id,
             reply |-> Msg("api_set_success")]
    ELSE [db_users |-> users, ai_services |-> services, conversations |-> convs,
          sessions |-> ss, conversation_id |-> NoConversation,
          reply |-> Msg("api_invalid")]

\* handle_message, state CHATTING or IDLE, up to the conversation the turn
\* uses (main.py 268-286); conversation_id is None when the turn is given up.
ensure_conversation(users, convs, ss, u, state) ==
    LET first == IF state = "IDLE"
                 THEN SessionManager_create_conversation(users, convs, ss, u)
                 ELSE [conversations |-> convs, sessions |-> ss,
                       conversation_id |-> ss[u].conversation_id]
    IN  IF state = "IDLE" /\ first.conversation_id = NoConversation
        THEN first
        ELSE LET ss1 == IF state = "IDLE" THEN set_state(first.sessions, u, "CHATTING")
                        ELSE first.sessions
             IN  IF ss1[u].conversation_id # NoConversation
                 THEN [conversations |-> first.conversations, sessions |-> ss1,
                       conversation_id |-> ss1[u].conversation_id]
                 ELSE LET again == SessionManager_create_conversation(
                                       users, first.conversations, ss1, u)
                      IN  IF again.conversation_id = NoConversation THEN again
                          ELSE [again EXCEPT !.sessions =
                                    set_conversation_id(@, u, again.conversation_id)]

\* Mutant of params_command: the usage is all it ever answers.
params_command_usage_only(users, u, args) ==
    [db_users |-> users, success |-> "none", replies |-> << Msg("params_usage") >>]

\* params_command: with two arguments or more the first two go to
\* set_user_param; with none the settings are shown, with one the usage.  The
\* session is not looked at.
params_command(users, u, args) ==
    IF args = <<>>
    THEN [db_users |-> users, success |-> "none",
          replies |-> IF users[u].exists
                      THEN << Msg("params_current"), Msg("params_usage") >>
                      ELSE << Msg("params_usage") >>]
    ELSE IF Len(args) >= 2
    THEN LET r == set_user_param(users, u, args[1], args[2])
         IN  [db_users |-> r.db_users,
              success |-> IF r.ok THEN "yes" ELSE "no",
              replies |-> IF r.ok THEN << Msg("params_set_success") >>
                                  ELSE << Msg("params_invalid") >>]
    ELSE [db_users |-> users, success |-> "none",
          replies |-> << Msg("params_usage") >>]

\* setlang_command: show the language buttons, then SELECTING_LANGUAGE.
setlang_command(ss, u) ==
    [sessions |-> set_state(get_user_session(ss, u), u, "SELECTING_LANGUAGE"),
     replies |-> << Msg("language_prompt") >>]

\* handle_language_selection: callback data "lang_<code>" stores the code
\* (the result of set_language is dropped) and sets the state IDLE; the state
\* found is not looked at.
handle_language_selection(users, ss, u, callback_data) ==
    IF callback_data # <<>> /\ Head(callback_data) = "lang_"
    THEN LET lang_code == Tail(callback_data)
         IN  [db_users |-> set_language(users, u, lang_code).db_users,
              sessions |-> set_state(get_user_session(ss, u), u, "IDLE"),
              replies |-> << Msg("language_set") >>]
    ELSE [db_users |-> users, sessions |-> ss, replies |-> <<>>]

\* handle_message, state WAITING_PARAM_VALUE: the pending name and the text go
\* to set_user_param, then the state is IDLE and the pending data cleared.
handle_param_value(users, ss, u, message_text) ==
    LET param == get_temp_data(ss, u, "param")
        r == set_user_param(users, u, param, strip(message_text))
    IN  [db_users |-> r.db_users,
         sessions |-> clear_temp_data(set_state(ss, u, "IDLE"), u),
         success |-> IF r.ok THEN "yes" ELSE "no",
         replies |-> IF r.ok THEN << Msg("params_set_success") >>
                             ELSE << Msg("params_invalid") >>]

(* --------------------------- the machine ------------------------------ *)

Init ==
    /\ db_users = [u \in Users |-> NoUser]
    /\ conversations = <<>>
    /\ clock = 0
    /\ sessions = [u \in Users |-> NoSession]
    /\ ai_services = [u \in Users |-> NoService]
    /\ update_queue = <<>>
    /\ received = 0
    /\ running = {}
    /\ finished = [u \in Users |-> NoFrame]

\* What a user can send: a command with its arguments, a text, or the press
\* of a language button with its callback data.
Command(kind, args) == [kind |-> kind, text |-> <<>>, args |-> args]
Text(text) == [kind |-> "text", text |-> text, args |-> <<>>]
Callback(lang_code) ==
    [kind |-> "callback", text |-> <<"lang_">> \o lang_code, args |-> <<>>]

\* One of the given updates arrives from a user and joins the update queue.
ReceiveFrom(updates) ==
    /\ received < MaxUpdates
    /\ Len(update_queue) < MaxPending
    /\ \E u \in Users, update \in updates :
            update_queue' = Append(update_queue,
                [user |-> u, kind |-> update.kind, text |-> update.text,
                 args |-> update.args])
    /\ received' = received + 1
    /\ UNCHANGED <<db_users, conversations, clock, sessions, ai_services,
                   running, finished>>

\* The updates of the key and conversation flow.
Receive ==
    ReceiveFrom({ Command(kind, <<>>) : kind \in {"start", "setapi", "reset"} }
                \cup { Text(text) : text \in Texts })

\* The update fetcher takes the next update: at once when updates are handled
\* concurrently, otherwise only after the previous handler has returned.
can_dispatch ==
    /\ update_queue # <<>>
    /\ concurrent_updates \/ running = {}

\* The update the fetcher takes next.
next_update == Head(update_queue)

\* The session state a handler finds (UserSession.get_state on the session
\* get_user_session returns).
found_state(u) == get_user_session(sessions, u)[u].state

\* A handler call that runs to its end without an outstanding API call.
Returned(frame) == finished' = [finished EXCEPT ![frame.user] = frame]

\* CommandHandler("start", start_command)
StartCommand ==
    /\ can_dispatch
    /\ next_update.kind = "start"
    /\ LET u == next_update.user
           r == start_command(db_users, conversations, sessions, u)
       IN  /\ db_users' = r.db_users
           /\ conversations' = r.conversations
           /\ sessions' = r.sessions
           /\ Returned([Frame(next_update, "done", found_state(u))
                           EXCEPT !.conversation_id = r.conversation_id,
                                  !.replies = r.replies])
    /\ update_queue' = Tail(update_queue)
    /\ UNCHANGED <<clock, ai_services, received, running>>

\* CommandHandler("setapi", setapi_command)
SetapiCommand ==
    /\ can_dispatch
    /\ next_update.kind = "setapi"
    /\ LET u == next_update.user
           r == setapi_command(sessions, u)
       IN  /\ sessions' = r.sessions
           /\ Returned([Frame(next_update, "done", found_state(u))
                           EXCEPT !.replies = r.replies])
    /\ update_queue' = Tail(update_queue)
    /\ UNCHANGED <<db_users, conversations, clock, ai_services, received, running>>

\* CommandHandler("reset", reset_command)
ResetCommand ==
    /\ can_dispatch
    /\ next_update.kind = "reset"
    /\ LET u == next_update.user
           r == reset_command(db_users, conversations, sessions, u)
       IN  /\ conversations' = r.conversations
           /\ sessions' = r.sessions
           /\ Returned([Frame(next_update, "done", found_state(u))
                           EXCEPT !.conversation_id = r.conversation_id,
                                  !.replies = r.replies])
    /\ update_queue' = Tail(update_queue)
    /\ UNCHANGED <<db_users, clock, ai_services, received, running>>

\* CommandHandler("params", params_command)
ParamsCommand ==
    /\ can_dispatch
    /\ next_update.kind = "params"
    /\ LET u == next_update.user
           r == params_command(db_users, u, next_update.args)
       IN  /\ db_users' = r.db_users
           /\ Returned([FrameOf(next_update, "done", sessions[u].state,
                                sessions[u].conversation_id)
                           EXCEPT !.success = r.success,
                                  !.replies = r.replies])
    /\ update_queue' = Tail(update_queue)
    /\ UNCHANGED <<conversations, clock, sessions, ai_services, received, running>>

\* CommandHandler("setlang", setlang_command)
SetlangCommand ==
    /\ can_dispatch
    /\ next_update.kind = "setlang"
    /\ LET u == next_update.user
           r == setlang_command(sessions, u)
       IN  /\ sessions' = r.sessions
           /\ Returned([Frame(next_update, "done", found_state(u))
                           EXCEPT !.replies = r.replies])
    /\ update_queue' = Tail(update_queue)
    /\ UNCHANGED <<db_users, conversations, clock, ai_services, received, running>>

\* CallbackQueryHandler(handle_language_selection, pattern="^lang_")
LanguageSelection ==
    /\ can_dispatch
    /\ next_update.kind = "callback"
    /\ LET u == next_update.user
           r == handle_language_selection(db_users, sessions, u, next_update.text)
       IN  /\ db_users' = r.db_users
           /\ sessions' = r.sessions
           /\ Returned([Frame(next_update, "done", found_state(u))
                           EXCEPT !.replies = r.replies])
    /\ update_queue' = Tail(update_queue)
    /\ UNCHANGED <<conversations, clock, ai_services, received, running>>

\* handle_message, state WAITING_PARAM_VALUE (main.py 250-266) or
\* SELECTING_LANGUAGE, which no branch of handle_message names.
HandleMessageOther ==
    /\ can_dispatch
    /\ next_update.kind = "text"
    /\ found_state(next_update.user) \in {"WAITING_PARAM_VALUE", "SELECTING_LANGUAGE"}
    /\ LET u == next_update.user
           state == found_state(u)
           ss == get_user_session(sessions, u)
           r == handle_param_value(db_users, ss, u, next_update.text)
       IN  IF state = "WAITING_PARAM_VALUE"
           THEN /\ db_users' = r.db_users
                /\ sessions' = r.sessions
                /\ Returned([Frame(next_update, "done", state)
                                EXCEPT !.success = r.success,
                                       !.replies = r.replies])
           ELSE /\ db_users' = db_users
                /\ sessions' = ss
                /\ Returned(Frame(next_update, "done", state))
    /\ update_queue' = Tail(update_queue)
    /\ UNCHANGED <<conversations, clock, ai_services, received, running>>

\* MessageHandler(filters.TEXT & ~filters.COMMAND, handle_message), state
\* WAITING_API_KEY: up to the suspension on validate_api_key (main.py 212-233).
HandleMessageApiKey ==
    /\ can_dispatch
    /\ next_update.kind = "text"
    /\ found_state(next_update.user) = "WAITING_API_KEY"
    /\ sessions' = get_user_session(sessions, next_update.user)
    /\ running' = running \cup
           { [Frame(next_update, "validate_api_key", "WAITING_API_KEY")
                 EXCEPT !.api_key = strip(next_update.text),
                        !.replies = << Msg("processing") >>] }
    /\ update_queue' = Tail(update_queue)
    /\ UNCHANGED <<db_users, conversations, clock, ai_services, received, finished>>

\* validate_api_key returns to handle_message, which runs to its end
\* (main.py 233-248).  Whether the key is valid is the API's answer.
ValidateReturns ==
    \E frame \in running, is_valid \in BOOLEAN :
        /\ frame.pc = "validate_api_key"
        /\ LET u == frame.user
               r == handle_api_key(db_users, conversations, sessions, ai_services,
                                   u, frame.api_key, is_valid)
           IN  /\ db_users' = r.db_users
               /\ ai_services' = r.ai_services
               /\ conversations' = r.conversations
               /\ sessions' = r.sessions
               /\ Returned([frame EXCEPT !.pc = "done",
                              !.is_valid = IF is_valid THEN "valid" ELSE "invalid",
                              !.conversation_id = r.conversation_id,
                              !.replies = << r.reply >>])
        /\ running' = running \ {frame}
        /\ UNCHANGED <<clock, update_queue, received>>

\* handle_message, state CHATTING or IDLE: up to the suspension on
\* chat_completion (main.py 212-307), or to the early return when no
\* conversation could be created.
HandleMessageChat ==
    /\ can_dispatch
    /\ next_update.kind = "text"
    /\ found_state(next_update.user) \in {"CHATTING", "IDLE"}
    /\ \E c \in { ensure_conversation(db_users, conversations,
                        get_user_session(sessions, next_update.user),
                        next_update.user, found_state(next_update.user)) } :
       LET u == next_update.user
           state == found_state(u)
       IN  IF c.conversation_id = NoConversation
           THEN /\ sessions' = c.sessions
                /\ conversations' = c.conversations
                /\ Returned([Frame(next_update, "done", state)
                                EXCEPT !.replies = << Msg("error") >>])
                /\ UNCHANGED <<clock, ai_services, running>>
           ELSE \E now \in clock..MaxClock :
                \E a \in { add_message(c.conversations, c.conversation_id,
                                        "user", next_update.text, now) } :
                LET services == get_ai_service(ai_services, db_users, u)
                    rows == a.conversations[c.conversation_id].messages
                IN  \E order \in get_conversation_messages(a.conversations,
                                                           c.conversation_id) :
                      /\ sessions' = c.sessions
                      /\ conversations' = a.conversations
                      /\ clock' = now
                      /\ ai_services' = services
                      /\ running' = running \cup
                             { [Frame(next_update, "chat_completion", state)
                                  EXCEPT !.conversation_id = c.conversation_id,
                                         !.user_row = Len(rows),
                                         !.messages = get_messages_for_api(rows, order),
                                         !.message_order = order,
                                         !.service = services[u],
                                         !.replies = << Msg("processing") >>] }
                      /\ UNCHANGED finished
    /\ update_queue' = Tail(update_queue)
    /\ UNCHANGED <<db_users, received>>

\* Mutant of CompletionReturnsFrom: the request never answers.
CompletionNeverReturns(outcomes) == FALSE /\ UNCHANGED vars

\* chat_completion returns to handle_message, which stores the response as the
\* assistant message and shows it in place of the placeholder (main.py
\* 307-313).  The handler's locals die with it; the frame keeps what
\* identifies the turn.
CompletionReturnsFrom(outcomes) ==
    \E frame \in running, now \in clock..MaxClock :
      \E completion \in (IF frame.service.client = NoKey THEN {NoCompletion}
                          ELSE outcomes) :
        /\ frame.pc = "chat_completion"
        /\ LET response == chat_completion(frame.service, completion)
               a == add_message(conversations, frame.conversation_id,
                                "assistant", response, now)
           IN  /\ conversations' = a.conversations
               /\ clock' = now
               /\ Returned([frame EXCEPT !.pc = "done",
                                         !.completion = completion.kind,
                                         !.response = response,
                                         !.messages = <<>>,
                                         !.message_order = <<>>,
                                         !.replies = << Raw(response) >>])
        /\ running' = running \ {frame}
        /\ UNCHANGED <<db_users, sessions, ai_services, update_queue, received>>

\* The API generates text or answers with an APIError.
CompletionReturns ==
    CompletionReturnsFrom({ c \in Completions : c.kind \in {"choice", "APIError"} })

Next ==
    \/ Receive
    \/ StartCommand
    \/ SetapiCommand
    \/ ResetCommand
    \/ HandleMessageApiKey
    \/ ValidateReturns
    \/ HandleMessageChat
    \/ CompletionReturns

Spec == Init /\ [][Next]_vars

\* The language flow: the updates of a user who also picks a language.
ReceiveLang ==
    ReceiveFrom({ Command(kind, <<>>) : kind \in {"start", "reset", "setlang"} }
                \cup { Callback(<<"en">>), Text(<<"a">>) })

\* The API generates text.
CompletionReturnsText ==
    CompletionReturnsFrom({ c \in Completions : c.kind = "choice" })

NextLang ==
    \/ ReceiveLang
    \/ StartCommand
    \/ ResetCommand
    \/ SetlangCommand
    \/ LanguageSelection
    \/ HandleMessageOther
    \/ HandleMessageApiKey
    \/ ValidateReturns
    \/ HandleMessageChat
    \/ CompletionReturnsText

SpecLang == Init /\ [][NextLang]_vars

\* The parameter flow: the updates of a user who sets parameters.
ParamArgs ==
    { <<>>,
      << <<"temperature">> >>,
      << <<"temperature">>, <<"5">> >>,
      << <<"temperature">>, <<"x">> >>,
      << <<"max_tokens">>, <<"0", "5">> >>,
      << <<"max_tokens">>, <<"0", ".", "5">> >>,
      << <<"model">>, <<"x">> >>,
      << <<"n">>, <<"5">> >> }

ReceiveParams ==
    ReceiveFrom({ Command(kind, <<>>) : kind \in {"start", "reset"} }
                \cup { Command("params", args) : args \in ParamArgs })

NextParams ==
    \/ ReceiveParams
    \/ StartCommand
    \/ ResetCommand
    \/ ParamsCommand

SpecParams == Init /\ [][NextParams]_vars

\* The chat flow with every outcome of a completion request.
ReceiveChat ==
    ReceiveFrom({ Command(kind, <<>>) : kind \in {"start", "reset"} }
                \cup { Text(<<"a">>) })

CompletionReturnsAny == CompletionReturnsFrom(Completions)

NextChat ==
    \/ ReceiveChat
    \/ StartCommand
    \/ ResetCommand
    \/ HandleMessageApiKey
    \/ ValidateReturns
    \/ HandleMessageChat
    \/ CompletionReturnsAny

SpecChat == Init /\ [][NextChat]_vars

\* The process ends and main() runs again: the SessionManager starts with no
\* sessions and no cached services, the handler calls of the old process, in
\* progress or returned, are gone, and the updates fetched but not handled
\* are lost or delivered again.  The store is a database file and stays.
Restart ==
    /\ sessions' = [u \in Users |-> NoSession]
    /\ ai_services' = [u \in Users |-> NoService]
    /\ running' = {}
    /\ update_queue' \in {update_queue, <<>>}
    /\ finished' = [u \in Users |-> NoFrame]
    /\ UNCHANGED <<db_users, conversations, clock, received>>

NextRestart ==
    \/ ReceiveChat
    \/ StartCommand
    \/ ResetCommand
    \/ HandleMessageApiKey
    \/ ValidateReturns
    \/ HandleMessageChat
    \/ CompletionReturnsText
    \/ Restart

\* The chat flow of a process that can be restarted at any time.
SpecRestart == Init /\ [][NextRestart]_vars

\* A chat turn with a gateway that answers or times out, under the scheduling
\* of the event loop: a handler that can be called is called, and an awaited
\* API call returns.
ReceiveTurn == ReceiveFrom({ Command("start", <<>>), Text(<<"a">>) })

CompletionAnswersOrTimesOut ==
    CompletionReturnsFrom({ c \in Completions : c.kind \in {"choice", "Exception"} })

NextTurn ==
    \/ ReceiveTurn
    \/ StartCommand
    \/ HandleMessageApiKey
    \/ ValidateReturns
    \/ HandleMessageChat
    \/ CompletionAnswersOrTimesOut

SpecTurnFair ==
    /\ Init /\ [][NextTurn]_vars
    /\ WF_vars(StartCommand)
    /\ WF_vars(HandleMessageApiKey)
    /\ WF_vars(ValidateReturns)
    /\ WF_vars(HandleMessageChat)
    /\ WF_vars(CompletionAnswersOrTimesOut)

(* ----------------------------- properties ----------------------------- *)

\* The message rows of a conversation, in insertion order.
Rows(conversation_id) == conversations[conversation_id].messages

\* A frame of handle_message that took the chat branch and appended its user message.
IsChatTurn(f) == f.kind = "text" /\ f.state \in {"CHATTING", "IDLE"} /\ f.user_row # 0

\* The elements of a sequence.
Range(seq) == { seq[i] : i \in 1..Len(seq) }

\* C1: two chat turns of one user that follow each other never interleave.
\* While turn B is between its history read and its gateway return, no other
\* handler of that user is running, and if the handler of that user that
\* returned last was a chat turn A, then A's user message and A's assistant
\* message lie in B's conversation directly before B's user message, and B's
\* history read contains A's user message.
C1_TurnsDoNotInterleave ==
    \A B \in running :
        B.pc = "chat_completion" =>
            /\ \A other \in running : other.user = B.user => other = B
            /\ LET A == finished[B.user] IN
               IsChatTurn(A) =>
                   /\ A.conversation_id = B.conversation_id
                   /\ B.user_row = A.user_row + 2
                   /\ Rows(B.conversation_id)[A.user_row] =
                          [role |-> "user", content |-> A.text,
                           timestamp |-> Rows(B.conversation_id)[A.user_row].timestamp]
                   /\ Rows(B.conversation_id)[A.user_row + 1].role = "assistant"
                   /\ Rows(B.conversation_id)[A.user_row + 1].content = A.response
                   /\ A.user_row \in Range(B.message_order)
                   /\ [role |-> "user", content |-> A.text] \in Range(B.messages)

\* C1 witness: turn B is suspended on the gateway and the previous handler of
\* the same user was a chat turn.
C1_Witness ==
    \E B \in running :
        /\ B.pc = "chat_completion"
        /\ IsChatTurn(finished[B.user])

\* C2 (as claimed): while user A's handler is suspended on an outstanding
\* completion call and the next waiting update belongs to another user, that
\* update can be dispatched.
C2_OtherUserNotBlocked ==
    \A A \in running :
        ( /\ A.pc = "chat_completion"
          /\ A.service.client # NoKey
          /\ update_queue # <<>>
          /\ next_update.user # A.user )
        => can_dispatch

\* C3 (as claimed): in a chat turn handled in state CHATTING with a bound
\* conversation, the user message is in the conversation when the gateway is
\* invoked, the history passed to the gateway ends with that user message, and
\* after the gateway returned its text is the next row, role assistant, and is
\* what the user is shown.
C3_ChatTurnOrder ==
    /\ \A f \in running :
         ( /\ f.pc = "chat_completion"
           /\ f.state = "CHATTING"
           /\ f.found_conversation_id # NoConversation )
         => /\ f.conversation_id = f.found_conversation_id
            /\ Rows(f.conversation_id)[f.user_row].role = "user"
            /\ Rows(f.conversation_id)[f.user_row].content = f.text
            /\ f.message_order # <<>>
            /\ f.message_order[Len(f.message_order)] = f.user_row
            /\ f.messages[Len(f.messages)] = [role |-> "user", content |-> f.text]
    /\ \A u \in Users :
         LET f == finished[u] IN
         ( /\ IsChatTurn(f)
           /\ f.state = "CHATTING"
           /\ f.found_conversation_id # NoConversation )
         => /\ Len(Rows(f.conversation_id)) > f.user_row
            /\ Rows(f.conversation_id)[f.user_row + 1].role = "assistant"
            /\ Rows(f.conversation_id)[f.user_row + 1].content = f.response
            /\ f.replies = << Raw(f.response) >>

\* C4 (as claimed): get_conversation_messages returns the messages of the
\* conversation in the order of the add_message calls, role and content
\* unchanged, also when messages carry equal timestamps.
C4_ReadInCallOrder ==
    \A f \in running :
        f.pc = "chat_completion" =>
            f.messages = [i \in 1..Len(Rows(f.conversation_id)) |->
                            [role |-> Rows(f.conversation_id)[i].role,
                             content |-> Rows(f.conversation_id)[i].content]]

\* The step in which the handler of a waiting update of the given kind is called.
Handles(kind) ==
    /\ update_queue # <<>>
    /\ next_update.kind = kind
    /\ update_queue' = Tail(update_queue)

\* The step in which frame f, suspended on validate_api_key, gets the given
\* answer and handle_message runs to its end.
Validated(f, answer) ==
    /\ f \in running
    /\ f.pc = "validate_api_key"
    /\ f \notin running'
    /\ finished'[f.user].is_valid = answer

\* C5 (as claimed): when validation of the candidate key succeeds, then after
\* the handler the stored key and the cached client's key are the candidate, a
\* newly created conversation is bound to the session, and the state is CHATTING.
C5_ValidKeyAccepted ==
    [][ \A f \in running :
          Validated(f, "valid") =>
              /\ get_api_key(db_users', f.user) = f.api_key
              /\ ai_services'[f.user].cached
              /\ ai_services'[f.user].client = f.api_key
              /\ Len(conversations') = Len(conversations) + 1
              /\ sessions'[f.user].conversation_id = Len(conversations')
              /\ sessions'[f.user].state = "CHATTING" ]_vars

\* What a rejected key must leave alone: the stored keys, the cached clients,
\* the conversation store and the user's session.
KeyFlowUntouched(u) ==
    /\ db_users' = db_users
    /\ ai_services' = ai_services
    /\ conversations' = conversations
    /\ sessions'[u] = sessions[u]
    /\ sessions'[u].state = "WAITING_API_KEY"

\* C6: a text handled in state WAITING_API_KEY whose validation fails leaves
\* the state WAITING_API_KEY, shows the user the invalid-key message, and
\* changes neither the stored key, the cached client, the session's
\* conversation handle nor the conversation store: neither the step up to the
\* validation call nor the step after its negative answer changes them.
C6_InvalidKeyRejected ==
    [][ /\ ( Handles("text") /\ found_state(next_update.user) = "WAITING_API_KEY" )
           => KeyFlowUntouched(next_update.user)
        /\ \A f \in running :
             Validated(f, "invalid") =>
                 /\ KeyFlowUntouched(f.user)
                 /\ finished'[f.user].replies = << Msg("api_invalid") >> ]_vars

\* C6 witness: a key was rejected for a user who has a conversation handle and
\* a stored key, and the session still waits for a key.
C6_Witness ==
    \E u \in Users :
        /\ finished[u].kind = "text"
        /\ finished[u].is_valid = "invalid"
        /\ sessions[u].state = "WAITING_API_KEY"
        /\ sessions[u].conversation_id # NoConversation

\* C7 (as claimed): reset, in any state and for any user, creates a new
\* conversation, binds it to the session and leaves the state CHATTING.
C7_ResetStartsConversation ==
    [][ Handles("reset") =>
          LET u == next_update.user IN
          /\ conversations' = Append(conversations, [user_id |-> u, messages |-> <<>>])
          /\ sessions'[u].conversation_id = Len(conversations')
          /\ sessions'[u].state = "CHATTING" ]_vars

\* C8: start by a user with no stored key leaves the session in
\* WAITING_API_KEY, creates no conversation and keeps the session's
\* conversation handle.
C8_StartWithoutKey ==
    [][ ( Handles("start") /\ get_api_key(db_users, next_update.user) = NoKey ) =>
          LET u == next_update.user IN
          /\ sessions'[u].state = "WAITING_API_KEY"
          /\ conversations' = conversations
          /\ sessions'[u].conversation_id = sessions[u].conversation_id ]_vars

\* C8 witness: start was handled for a user without a key whose session was
\* CHATTING with a bound conversation.
C8_Witness ==
    \E u \in Users :
        /\ finished[u].kind = "start"
        /\ finished[u].state = "CHATTING"
        /\ finished[u].found_conversation_id # NoConversation
        /\ get_api_key(db_users, u) = NoKey
        /\ sessions[u].state = "WAITING_API_KEY"
        /\ sessions[u].conversation_id = finished[u].found_conversation_id

\* C9: start by a user with a stored key creates a new conversation owned by
\* that user, binds its id to the session and leaves the state CHATTING.
C9_StartWithKey ==
    [][ ( Handles("start") /\ get_api_key(db_users, next_update.user) # NoKey ) =>
          LET u == next_update.user IN
          /\ conversations' = Append(conversations, [user_id |-> u, messages |-> <<>>])
          /\ sessions'[u].conversation_id = Len(conversations')
          /\ sessions'[u].state = "CHATTING" ]_vars

\* C9 witness: start was handled for a user with a stored key whose session
\* was waiting for a key, and created a conversation.
C9_Witness ==
    \E u \in Users :
        /\ finished[u].kind = "start"
        /\ finished[u].state = "WAITING_API_KEY"
        /\ get_api_key(db_users, u) # NoKey
        /\ finished[u].conversation_id # NoConversation
        /\ sessions[u].conversation_id = finished[u].conversation_id
        /\ sessions[u].state = "CHATTING"

\* C10: setapi, in any state, leaves the session in WAITING_API_KEY and changes
\* neither a stored key, a cached client, the session's conversation handle nor
\* the conversation store.
C10_SetapiOnlyChangesState ==
    [][ Handles("setapi") =>
          LET u == next_update.user IN
          /\ sessions'[u].state = "WAITING_API_KEY"
          /\ sessions'[u].conversation_id = sessions[u].conversation_id
          /\ db_users' = db_users
          /\ ai_services' = ai_services
          /\ conversations' = conversations ]_vars

\* C10 witness: setapi was handled for a user who was CHATTING with a stored
\* key, a cached client and a bound conversation.
C10_Witness ==
    \E u \in Users :
        /\ finished[u].kind = "setapi"
        /\ finished[u].state = "CHATTING"
        /\ get_api_key(db_users, u) # NoKey
        /\ ai_services[u].cached
        /\ sessions[u].conversation_id # NoConversation
        /\ sessions[u].state = "WAITING_API_KEY"

\* C11 (as claimed): a language button pressed in SELECTING_LANGUAGE stores
\* the chosen code as the user's language and leaves the state IDLE; the state
\* does not become IDLE through the button unless the code was stored.
C11_LanguagePersisted ==
    [][ ( Handles("callback")
          /\ found_state(next_update.user) = "SELECTING_LANGUAGE" ) =>
          LET u == next_update.user IN
          /\ sessions'[u].state = "IDLE"
          /\ db_users'[u].exists
          /\ db_users'[u].language_code = Tail(next_update.text) ]_vars

\* What the session records of user u: state, handle and pending data.
SessionOf(ss, u) ==
    [state |-> ss[u].state, conversation_id |-> ss[u].conversation_id,
     temp_data |-> ss[u].temp_data]

\* A step that changes nothing for user u and makes no gateway call.
NoOpFor(u) ==
    /\ SessionOf(sessions', u) = SessionOf(sessions, u)
    /\ UNCHANGED <<db_users, conversations, ai_services, running>>

\* C12 (as claimed): a text in SELECTING_LANGUAGE, and a language button
\* pressed in any state other than SELECTING_LANGUAGE, change neither session
\* nor store and make no gateway call.
C12_UnlistedPairsAreNoOps ==
    [][ ( \/ Handles("text")
             /\ found_state(next_update.user) = "SELECTING_LANGUAGE"
          \/ Handles("callback")
             /\ found_state(next_update.user) # "SELECTING_LANGUAGE" ) =>
          NoOpFor(next_update.user) ]_vars

\* C13 (as claimed): a text in IDLE with a conversation handle bound moves to
\* CHATTING, keeps the handle and appends the message to that conversation;
\* no conversation is created.
C13_IdleTextKeepsHandle ==
    [][ ( Handles("text")
          /\ found_state(next_update.user) = "IDLE"
          /\ sessions[next_update.user].conversation_id # NoConversation ) =>
          LET u == next_update.user
              conversation_id == sessions[u].conversation_id
          IN  /\ sessions'[u].state = "CHATTING"
              /\ sessions'[u].conversation_id = conversation_id
              /\ Len(conversations') = Len(conversations)
              /\ Len(conversations'[conversation_id].messages) =
                     Len(conversations[conversation_id].messages) + 1 ]_vars

\* A value no float, and a value no int, can be made from.
NotANumber(value) == \E i \in 1..Len(value) : value[i] \notin Digits \cup {"."}
NotAnInteger(value) == \E i \in 1..Len(value) : value[i] \notin Digits

\* A name and value set_param has to refuse.
Refused(param, value) ==
    \/ param \notin ParamNames
    \/ param \in ParamNames \ { <<"model">>, <<"max_tokens">> } /\ NotANumber(value)
    \/ param = <<"max_tokens">> /\ NotAnInteger(value)

\* C14: for a user in the store, set_user_param with an unknown name or a
\* value the parameter's type cannot be made from answers false and leaves
\* the stored parameters as they were; the stored parameters always have
\* exactly the six names as keys.
C14_BadParamRefused ==
    [][ /\ \A u \in Users : DOMAIN db_users'[u].ai_params = ParamNames
        /\ ( Handles("params") /\ Len(next_update.args) >= 2
              /\ db_users[next_update.user].exists
              /\ Refused(next_update.args[1], next_update.args[2]) ) =>
              LET u == next_update.user IN
              /\ finished'[u].success = "no"
              /\ db_users'[u].ai_params = db_users[u].ai_params ]_vars

\* C14 witness: max_tokens was refused the value 0.5 (a float, not an int)
\* for a user in the store whose temperature had been set before.
C14_Witness ==
    \E u \in Users :
        /\ db_users[u].exists
        /\ finished[u].kind = "params"
        /\ finished[u].args = << <<"max_tokens">>, <<"0", ".", "5">> >>
        /\ finished[u].success = "no"
        /\ db_users[u].ai_params[<<"temperature">>] = Float(<<"5", ".", "0">>)

\* C15 (as claimed): params with one parameter name records the name as
\* pending data of the session and leaves the state WAITING_PARAM_VALUE.
C15_ParamNamePending ==
    [][ ( Handles("params") /\ Len(next_update.args) = 1 ) =>
          LET u == next_update.user IN
          /\ sessions'[u].state = "WAITING_PARAM_VALUE"
          /\ get_temp_data(sessions', u, "param") = next_update.args[1] ]_vars

\* C16: params with a name and a value applies set_user_param to them in the
\* same step and leaves every session as it was, whether set_user_param
\* succeeds or fails.
C16_InlineParamsKeepSession ==
    [][ ( Handles("params") /\ Len(next_update.args) >= 2 ) =>
          LET u == next_update.user
              r == set_user_param(db_users, u, next_update.args[1],
                                  next_update.args[2])
          IN  /\ db_users' = r.db_users
              /\ finished'[u].success = (IF r.ok THEN "yes" ELSE "no")
              /\ sessions' = sessions ]_vars

\* C16 witness: a parameter was set inline for a user whose session is
\* CHATTING with a conversation handle bound.
C16_Witness ==
    \E u \in Users :
        /\ finished[u].kind = "params"
        /\ finished[u].success = "yes"
        /\ finished[u].state = "CHATTING"
        /\ sessions[u].state = "CHATTING"
        /\ sessions[u].conversation_id # NoConversation

\* A chat turn that has to create its conversation.
NeedsConversation(u) ==
    /\ found_state(u) \in {"IDLE", "CHATTING"}
    /\ found_state(u) = "IDLE" \/ sessions[u].conversation_id = NoConversation

\* C18: a chat turn that needs a conversation, for a user the store does not
\* know, ends with the error message: no conversation is created, no message
\* appended, no gateway call made, and the session's handle stays absent.
C18_FailedCreationFailsTurn ==
    [][ ( Handles("text") /\ NeedsConversation(next_update.user)
          /\ ~db_users[next_update.user].exists ) =>
          LET u == next_update.user IN
          /\ finished'[u].kind = "text"
          /\ finished'[u].pc = "done"
          /\ finished'[u].replies = << Msg("error") >>
          /\ conversations' = conversations
          /\ running' = running
          /\ ai_services' = ai_services
          /\ sessions'[u].conversation_id = NoConversation ]_vars

\* C18 witness: a turn of an unknown user ended with the error message while
\* another user's conversation holds messages.
C18_Witness ==
    \E u \in Users :
        /\ ~db_users[u].exists
        /\ finished[u].kind = "text"
        /\ finished[u].state = "IDLE"
        /\ finished[u].replies = << Msg("error") >>
        /\ sessions[u].conversation_id = NoConversation
        /\ \E c \in 1..Len(conversations) : conversations[c].messages # <<>>

\* C19 (as claimed): when a key was found valid and set_api_key fails, the
\* user is not shown the message that the key was set.
C19_FailedWriteReported ==
    [][ \A f \in running :
          ( Validated(f, "valid")
            /\ ~set_api_key(db_users, f.user, f.api_key).ok ) =>
              finished'[f.user].replies # << Msg("api_set_success") >> ]_vars

\* The error strings chat_completion builds for a failure of the given kind.
ErrorStrings(kind) ==
    CASE kind = "no_client" -> { NoClientError }
      [] kind = "no_choices" -> { NoChoicesError }
      [] kind = "APIError" ->
            { APIErrorText(c.text) : c \in { d \in Completions : d.kind = kind } }
      [] kind = "Exception" ->
            { RequestErrorText(c.text) : c \in { d \in Completions : d.kind = kind } }
      [] OTHER -> {}

\* C20: when the completion request of a chat turn fails (no client, an
\* APIError, no choices, any other exception), chat_completion returns the
\* error string of that failure, the handler appends it to the turn's
\* conversation as the assistant message and shows it as it is, and the
\* session state is CHATTING afterwards.
C20_GatewayFailureShown ==
    [][ \A f \in running :
          ( f.pc = "chat_completion" /\ f \notin running'
            /\ finished'[f.user].completion # "choice" ) =>
              LET g == finished'[f.user]
                  rows == conversations'[f.conversation_id].messages
              IN  /\ g.pc = "done"
                  /\ g.response \in ErrorStrings(g.completion)
                  /\ Len(rows) = Len(Rows(f.conversation_id)) + 1
                  /\ rows[Len(rows)].role = "assistant"
                  /\ rows[Len(rows)].content = g.response
                  /\ g.replies = << Raw(g.response) >>
                  /\ sessions'[f.user].state = "CHATTING" ]_vars

\* C20 witness: a turn with a client bound got a response without choices,
\* and the error string is the conversation's last message.
C20_Witness ==
    \E u \in Users :
        LET f == finished[u] IN
        /\ IsChatTurn(f)
        /\ f.completion = "no_choices"
        /\ f.service.client # NoKey
        /\ f.response = NoChoicesError
        /\ Rows(f.conversation_id)[Len(Rows(f.conversation_id))].content = NoChoicesError
        /\ sessions[u].state = "CHATTING"

\* C21: a step that changes a user's stored key leaves that user's cached
\* client bound to the new key, and a chat turn of a user with a stored key
\* goes to the gateway with a client of that key.
C21_ClientFollowsStoredKey ==
    [][ /\ \A u \in Users :
             db_users'[u].api_key # db_users[u].api_key =>
                 /\ ai_services'[u].cached
                 /\ ai_services'[u].client = db_users'[u].api_key
        /\ \A f \in running' \ running :
             ( f.pc = "chat_completion" /\ db_users'[f.user].api_key # NoKey ) =>
                 f.service.client = db_users'[f.user].api_key ]_vars

\* C21 witness: a user's stored key was replaced by a second key, and the
\* cached client is bound to the second key.
C21_Witness ==
    \E u \in Users :
        /\ finished[u].is_valid = "valid"
        /\ finished[u].api_key = <<"b">>
        /\ db_users[u].api_key = <<"b">>
        /\ ai_services[u].client = <<"b">>
        /\ Cardinality({ c \in 1..Len(conversations) : conversations[c].user_id = u }) = 2

\* A chat turn of user u is suspended on its gateway call.
Outstanding(u) == \E f \in running : f.user = u /\ f.pc = "chat_completion"

\* The last chat turn of user u has returned, its assistant message stored
\* right after its user message.
TurnFinished(u) ==
    LET f == finished[u] IN
    /\ ~Outstanding(u)
    /\ IsChatTurn(f)
    /\ f.pc = "done"
    /\ Len(Rows(f.conversation_id)) > f.user_row
    /\ Rows(f.conversation_id)[f.user_row + 1].role = "assistant"
    /\ Rows(f.conversation_id)[f.user_row + 1].content = f.response

\* C22: a chat turn suspended on its gateway call eventually returns with
\* its assistant message stored, and the updates that wait behind it are
\* eventually all handed to their handlers (the queue is empty again and
\* again, and an update leaves the queue only when its handler is called).
C22_ChatTurnFinishes ==
    /\ \A u \in Users : Outstanding(u) ~> TurnFinished(u)
    /\ []<>(update_queue = <<>>)

\* C22 witness: a chat turn has returned after a timeout of the API, and a
\* later update of the same user has been handled since.
C22_Witness ==
    \E u \in Users :
        /\ finished[u].kind = "start"
        /\ \E c \in 1..Len(conversations) :
              /\ conversations[c].user_id = u
              /\ Len(conversations[c].messages) = 2
              /\ conversations[c].messages[2].role = "assistant"
              /\ conversations[c].messages[2].content = RequestErrorText(<<"timed out">>)

\* The session a handler gets for user u.
Observed(ss, u) == SessionOf(get_user_session(ss, u), u)

\* A session as UserSession.__init__ leaves it.
DefaultSession ==
    [state |-> "IDLE", conversation_id |-> NoConversation, temp_data |-> {}]

\* C23: the session a handler gets for a user without one is in IDLE, with no
\* conversation handle and no pending data, and a user who has a session
\* gets that one; a restart leaves no session, so that every user is again
\* observed with the default session, and leaves the stored users (keys,
\* languages, parameters) and the conversations as they were.
C23_FreshSessionDefaults ==
    [][ /\ \A u \in Users :
             /\ ~sessions[u].exists => Observed(sessions, u) = DefaultSession
             /\ sessions[u].exists => get_user_session(sessions, u) = sessions
             /\ ( ~sessions[u].exists /\ sessions'[u].exists ) =>
                   \E f \in running' \cup {finished'[u]} :
                       /\ f.user = u
                       /\ f.state = "IDLE"
                       /\ f.found_conversation_id = NoConversation
        /\ ( \E u \in Users : sessions[u].exists /\ ~sessions'[u].exists ) =>
              /\ \A u \in Users : Observed(sessions', u) = DefaultSession
              /\ db_users' = db_users
              /\ conversations' = conversations ]_vars

\* C23 witness: after a restart a user with a stored key and a conversation
\* with messages has no session.
C23_Witness ==
    \E u \in Users :
        /\ ~sessions[u].exists
        /\ db_users[u].api_key # NoKey
        /\ \E c \in 1..Len(conversations) :
              conversations[c].user_id = u /\ conversations[c].messages # <<>>

\* C24 (as claimed): a session in CHATTING has a conversation handle, and the
\* handle names a conversation of the store that belongs to the same user.
C24_ChattingHasConversation ==
    \A u \in Users :
        sessions[u].state = "CHATTING" =>
            /\ sessions[u].conversation_id # NoConversation
            /\ sessions[u].conversation_id \in 1..Len(conversations)
            /\ conversations[sessions[u].conversation_id].user_id = u

\* C25: when the gateway call of a chat turn returns, the assistant message
\* is appended to the conversation that holds the turn's user message, the
\* one the handler kept in its local conversation_id, and to no other,
\* whatever handle the session has by then.
C25_AssistantInSameConversation ==
    [][ \A f \in running :
          ( f.pc = "chat_completion" /\ f \notin running' ) =>
              LET c == f.conversation_id IN
              /\ c \in 1..Len(conversations)
              /\ f.user_row \in 1..Len(Rows(c))
              /\ Rows(c)[f.user_row].role = "user"
              /\ Rows(c)[f.user_row].content = f.text
              /\ Len(conversations'[c].messages) = Len(Rows(c)) + 1
              /\ conversations'[c].messages[Len(Rows(c)) + 1].role = "assistant"
              /\ conversations'[c].messages[Len(Rows(c)) + 1].content =
                     finished'[f.user].response
              /\ \A d \in 1..Len(conversations) :
                     d # c => conversations'[d] = conversations[d] ]_vars

\* C25 witness: a chat turn on a user's second conversation has returned,
\* its assistant message follows its user message there, and the first
\* conversation is not the one that got it.
C25_Witness ==
    \E u \in Users :
        LET f == finished[u] IN
        /\ IsChatTurn(f)
        /\ f.conversation_id > 1
        /\ Rows(f.conversation_id)[f.user_row + 1].role = "assistant"
        /\ Rows(f.conversation_id)[f.user_row + 1].content = f.response
        /\ Rows(1) = <<>>

\* The user whose handler runs in the step: the sender of the update handed
\* to its handler, or the user of the handler call that returns; 0 when the
\* step is the arrival of an update.
Actor ==
    IF update_queue # <<>> /\ update_queue' = Tail(update_queue)
    THEN next_update.user
    ELSE IF running' # running /\ running # {}
         THEN (CHOOSE f \in running : f \notin running').user
         ELSE 0

\* The conversations of user u, by id.
ConversationsOf(convs, u) ==
    { <<c, convs[c]>> : c \in { d \in 1..Len(convs) : convs[d].user_id = u } }

\* C26: a step of a handler of user A leaves alone what belongs to any other
\* user B: B's session, B's stored key, language and parameters, B's cached
\* service, and B's conversations with their messages.
C26_OtherUsersUntouched ==
    [][ \A B \in Users :
          ( Actor # 0 /\ Actor # B ) =>
              /\ sessions'[B] = sessions[B]
              /\ db_users'[B] = db_users[B]
              /\ ai_services'[B] = ai_services[B]
              /\ ConversationsOf(conversations', B) = ConversationsOf(conversations, B)
      ]_vars

\* C26 witness: a user's key was accepted, which wrote that user's row,
\* service, session and a new conversation, while another user has a stored
\* key, a cached service and an earlier conversation of their own.
C26_Witness ==
    \E A, B \in Users :
        /\ A # B
        /\ finished[A].is_valid = "valid"
        /\ db_users[A].api_key # NoKey
        /\ sessions[A].conversation_id = 2
        /\ db_users[B].api_key # NoKey
        /\ ai_services[B].cached
        /\ sessions[B].state = "CHATTING"
        /\ sessions[B].conversation_id = 1

\* The number of rows with the given role.
RECURSIVE CountRole(_, _)
CountRole(rows, role) ==
    IF rows = <<>> THEN 0
    ELSE (IF Head(rows).role = role THEN 1 ELSE 0) + CountRole(Tail(rows), role)

\* How many more user messages than assistant messages the conversation has.
Surplus(c) == CountRole(Rows(c), "user") - CountRole(Rows(c), "assistant")

\* The messages of conversation c, in the order they were added, alternate
\* user, assistant, user, ... starting with user.
Alternates(c) ==
    \A i \in 1..Len(Rows(c)) :
        Rows(c)[i].role = (IF i % 2 = 1 THEN "user" ELSE "assistant")

\* A chat turn on conversation c is suspended on its gateway call.
TurnInProgress(c) ==
    \E f \in running : f.pc = "chat_completion" /\ f.conversation_id = c

\* C27 (as claimed): in every conversation the messages alternate user,
\* assistant, user, ... starting with user; there is at most one more user
\* message than assistant messages, and exactly one more only while a chat
\* turn on that conversation is in progress.
C27_RolesAlternate ==
    \A c \in 1..Len(conversations) :
        /\ Alternates(c)
        /\ Surplus(c) \in {0, 1}
        /\ Surplus(c) = 1 => TurnInProgress(c)

\* C27 (amended): the messages of every conversation alternate, starting
\* with user, with at most one more user message than assistant messages;
\* there is exactly one more only while a chat turn on the conversation is in
\* progress, or in a conversation whose turn a restart cut off, which no
\* session is bound to any more.
C27_RolesAlternateUnlessCutOff ==
    \A c \in 1..Len(conversations) :
        /\ Alternates(c)
        /\ Surplus(c) \in {0, 1}
        /\ Surplus(c) = 1 =>
              \/ TurnInProgress(c)
              \/ \A u \in Users : sessions[u].conversation_id # c

\* C27 witness: a conversation's second turn was cut off by a restart: three
\* messages, no turn in progress on it and no session bound to it, while its
\* owner has a session again.
C27_Witness ==
    \E c \in 1..Len(conversations) :
        /\ Len(Rows(c)) = 3
        /\ ~TurnInProgress(c)
        /\ \A u \in Users : sessions[u].conversation_id # c
        /\ sessions[conversations[c].user_id].exists

====
